---- MODULE Spec2Model ----
(***************************************************************************)
(* Authentication core of the user-management frontend:                    *)
(*   - APIClient (frontend/src/lib/api.ts): credential store in cookies    *)
(*     and localStorage, request/response interceptors, refreshAccessToken *)
(*   - useAuthStore (frontend/src/store/auth.ts): user / isAuthenticated   *)
(*   - AuthInitializer (providers): session bootstrap                      *)
(*   - LoginForm (login form): password step and second-factor step        *)
(* The backend is an external collaborator: every answer it can give to a  *)
(* request in flight is a nondeterministic choice.                         *)
(***************************************************************************)
EXTENDS Integers, FiniteSets, Sequences, TLC

\* ---------------------------------------------------------------- bounds
MaxReq == 4      \* HTTP requests issued in one process lifetime
MaxTok == 3      \* token pairs the backend issues (0 stands for "no token")
MaxNames == 2    \* permission names passed to one permission check
MaxRequired == 1 \* names in each of requiredPermissions / requiredRoles of a route

ReqIds == 1..MaxReq
Perms  == {"A", "B", "C"}

\* ---------------------------------------------------------------- state
VARIABLES
  cookies,          \* js-cookie jar:    [access_token, refresh_token]
  localStorage,     \* window.localStorage: the same two keys
  user,             \* useAuthStore.user
  isAuthenticated,  \* useAuthStore.isAuthenticated
  isLoading,        \* useAuthStore.isLoading
  refreshPromise,   \* APIClient.refreshPromise: 0 (null) or the refresh request backing it
  req,              \* every axios request of this process, by id
  bootPc,           \* AuthInitializer.initializeAuth: "start", "waiting", "done"
  formLoading,      \* LoginForm isLoading
  show2FA,          \* LoginForm show2FA
  tempToken,        \* LoginForm tempToken
  nextTok,          \* backend: next token pair to issue
  provisional,      \* backend: tokens issued with "Two-factor authentication required"
  rejected,         \* backend: access tokens it has answered 401 to on a privileged call
  exchanged,        \* backend: refresh tokens it has exchanged successfully
  gate,             \* last evaluation of the permission checks by a rendering component
  route             \* last render of a ProtectedRoute: its props and what it showed

vars == <<cookies, localStorage, user, isAuthenticated, isLoading, refreshPromise,
          req, bootPc, formLoading, show2FA, tempToken, nextTok, provisional,
          rejected, exchanged, gate, route>>

storeVars == <<user, isAuthenticated, isLoading>>
formVars  == <<formLoading, show2FA, tempToken>>
backVars  == <<nextTok, provisional, rejected, exchanged>>
viewVars  == <<gate, route>>

\* ---------------------------------------------------------------- data
NoTokens == [access_token |-> 0, refresh_token |-> 0]

\* User | null of api.ts: null is the record with id 0
NoUser == [id |-> 0, is_superuser |-> FALSE, roles |-> {}]

Identities ==
  { [id |-> 1, is_superuser |-> FALSE,
     roles |-> {[name |-> "admin", permissions |-> {"A", "B"}]}],
    [id |-> 2, is_superuser |-> TRUE, roles |-> {}] }

FreeReq == [kind |-> "none", st |-> "free", tok |-> 0, retry |-> FALSE, sends |-> 0,
            waitOn |-> 0, rt |-> 0, got |-> 0, gotRt |-> 0, res |-> "none",
            remember |-> FALSE, cause |-> 0, replay |-> FALSE, issued |-> 0,
            stale |-> FALSE, uid |-> 0, left |-> FALSE, temp |-> 0]

\* ---------------------------------------------------------------- credential store
Or(a, b) == IF a # 0 THEN a ELSE b

\* (bug variant: localStorage is consulted first)
getAccessTokenLocalFirst(c, l) == Or(l.access_token, c.access_token)

getAccessToken(c, l) == Or(c.access_token, l.access_token)

getRefreshToken(c, l) == Or(c.refresh_token, l.refresh_token)

\* (bug variant: the cookies are written whatever rememberMe says)
setTokensCookiesAlways(c, accessToken, refreshToken, rememberMe) ==
  [access_token |-> accessToken, refresh_token |-> refreshToken]

setTokensCookies(c, accessToken, refreshToken, rememberMe) ==
  IF rememberMe THEN [access_token |-> accessToken, refresh_token |-> refreshToken] ELSE c

setTokensLocal(l, accessToken, refreshToken, rememberMe) ==
  IF rememberMe THEN l ELSE [access_token |-> accessToken, refresh_token |-> refreshToken]

\* ---------------------------------------------------------------- auth store
\* (bug variant: an identity without roles is refused before the superuser test)
hasPermissionRolesFirst(u, permission) ==
  IF u.id = 0 \/ u.roles = {} THEN FALSE
  ELSE IF u.is_superuser THEN TRUE
  ELSE \E role \in u.roles : permission \in role.permissions

hasPermission(u, permission) ==
  IF u.id = 0 THEN FALSE
  ELSE IF u.is_superuser THEN TRUE
  ELSE \E role \in u.roles : permission \in role.permissions

\* (bug variant: every instead of some)
hasAnyPermissionEvery(u, permissions) ==
  IF u.id = 0 THEN FALSE
  ELSE IF u.is_superuser THEN TRUE
  ELSE \A i \in 1..Len(permissions) : hasPermission(u, permissions[i])

hasAnyPermission(u, permissions) ==
  IF u.id = 0 THEN FALSE
  ELSE IF u.is_superuser THEN TRUE
  ELSE \E i \in 1..Len(permissions) : hasPermission(u, permissions[i])

\* PermissionGate: requireAll selects every / some over useHasPermission
hasRequiredPermissions(u, requiredPermissions, requireAll) ==
  \/ Len(requiredPermissions) = 0
  \/ IF requireAll
     THEN \A i \in 1..Len(requiredPermissions) : hasPermission(u, requiredPermissions[i])
     ELSE \E i \in 1..Len(requiredPermissions) : hasPermission(u, requiredPermissions[i])

hasRole(u, roleName) ==
  /\ u.id # 0
  /\ \E role \in u.roles : role.name = roleName

\* PermissionGate: requireAll selects every / some over useHasRole
hasRequiredRoles(u, requiredRoles, requireAll) ==
  \/ Len(requiredRoles) = 0
  \/ IF requireAll
     THEN \A i \in 1..Len(requiredRoles) : hasRole(u, requiredRoles[i])
     ELSE \E i \in 1..Len(requiredRoles) : hasRole(u, requiredRoles[i])

\* what a component shows (out) and where its effect sends the router (redirect)
PermissionGate(u, requiredPermissions, requiredRoles, requireAll) ==
  IF hasRequiredPermissions(u, requiredPermissions, requireAll)
       /\ hasRequiredRoles(u, requiredRoles, requireAll)
  THEN [out |-> "children", redirect |-> "none"]
  ELSE [out |-> "denied", redirect |-> "/unauthorized"]

\* (bug variant: no spinner while the bootstrap is in progress)
ProtectedRouteNoSpinner(u, auth, loading, requireAuth, requiredPermissions, requiredRoles, requireAll) ==
  IF requireAuth /\ ~auth
  THEN [out |-> "null", redirect |-> IF loading THEN "none" ELSE "/login"]
  ELSE IF auth /\ (Len(requiredPermissions) > 0 \/ Len(requiredRoles) > 0)
  THEN PermissionGate(u, requiredPermissions, requiredRoles, requireAll)
  ELSE [out |-> "children", redirect |-> "none"]

\* ProtectedRoute with the default fallbackUrl
ProtectedRoute(u, auth, loading, requireAuth, requiredPermissions, requiredRoles, requireAll) ==
  IF loading
  THEN [out |-> "spinner", redirect |-> "none"]
  ELSE IF requireAuth /\ ~auth
  THEN [out |-> "null", redirect |-> "/login"]
  ELSE IF auth /\ (Len(requiredPermissions) > 0 \/ Len(requiredRoles) > 0)
  THEN PermissionGate(u, requiredPermissions, requiredRoles, requireAll)
  ELSE [out |-> "children", redirect |-> "none"]

NoRoute == [requireAuth |-> TRUE, requireAll |-> FALSE, requiredPermissions |-> <<>>,
            requiredRoles |-> <<>>, out |-> "none", redirect |-> "none"]

NoGate == [names |-> <<>>, of |-> NoUser, each |-> {}, any |-> FALSE, all |-> TRUE]

\* ---------------------------------------------------------------- request pool
\* AuthInitializer has mounted and its effect has not run yet: for the first time
\* ("start") or after the application was loaded again ("again")
Mounting == bootPc \in {"start", "again"}

Free == {r \in ReqIds : req[r].st = "free"}

Lowest(S) == CHOOSE r \in S : \A q \in S : r <= q

\* a privileged call that has not been retried may still need a slot for its refresh
Unretried == {r \in ReqIds : req[r].st = "sent" /\ ~req[r].retry /\ req[r].kind # "refresh"}

\* AuthInitializer's effect runs at mount, before any user event or query
CanSend == ~Mounting /\ Cardinality(Free) >= 2 + Cardinality(Unretried)

NewReq(kind, tok, remember) ==
  [FreeReq EXCEPT !.kind = kind, !.st = "sent", !.tok = tok, !.sends = 1,
                  !.remember = remember, !.stale = (tok \in rejected)]

\* ---------------------------------------------------------------- initial state
\* cookies, localStorage and the persisted part of the auth store outlive the
\* process: a fresh browser, or the leftovers of an earlier session that logged in
\* without / with "remember me".
Pair1 == [access_token |-> 1, refresh_token |-> 1]

Init ==
  /\ \E prior \in {"fresh", "session", "remembered"} :
       /\ cookies = IF prior = "remembered" THEN Pair1 ELSE NoTokens
       /\ localStorage = IF prior = "session" THEN Pair1 ELSE NoTokens
       /\ nextTok = IF prior = "fresh" THEN 1 ELSE 2
       /\ user \in (IF prior = "fresh" THEN {NoUser} ELSE Identities)
  /\ isAuthenticated = (user.id # 0)
  /\ isLoading = FALSE
  /\ refreshPromise = 0
  /\ req = [r \in ReqIds |-> FreeReq]
  /\ bootPc = "start"
  /\ formLoading = FALSE
  /\ show2FA = FALSE
  /\ tempToken = 0
  /\ provisional = {}
  /\ rejected = {}
  /\ exchanged = {}
  /\ gate = NoGate
  /\ route = NoRoute

\* ---------------------------------------------------------------- client steps
\* AuthInitializer effect: setLoading(true), then whoAmI if a token is stored
BootstrapStart ==
  /\ UNCHANGED viewVars
  /\ Mounting
  /\ IF Or(localStorage.access_token, cookies.access_token) # 0
     THEN /\ Free # {}
          /\ req' = [req EXCEPT ![Lowest(Free)] =
                       NewReq("me", getAccessToken(cookies, localStorage), FALSE)]
          /\ isLoading' = TRUE
          /\ bootPc' = "waiting"
          /\ UNCHANGED <<user, isAuthenticated>>
     ELSE /\ user' = NoUser
          /\ isAuthenticated' = FALSE
          /\ isLoading' = FALSE
          /\ bootPc' = "done"
          /\ UNCHANGED req
  /\ UNCHANGED <<cookies, localStorage, refreshPromise, formVars, backVars>>

\* any privileged call made through the client (getUsers, getRoles, ...)
SendApi ==
  /\ UNCHANGED viewVars
  /\ CanSend
  /\ req' = [req EXCEPT ![Lowest(Free)] =
               NewReq("api", getAccessToken(cookies, localStorage), FALSE)]
  /\ UNCHANGED <<cookies, localStorage, storeVars, refreshPromise, bootPc, formVars, backVars>>

\* LoginForm.onSubmit up to the await
SubmitLogin(remember) ==
  /\ UNCHANGED viewVars
  /\ ~show2FA /\ ~formLoading
  /\ CanSend
  /\ formLoading' = TRUE
  /\ req' = [req EXCEPT ![Lowest(Free)] =
               NewReq("login", getAccessToken(cookies, localStorage), remember)]
  /\ UNCHANGED <<cookies, localStorage, storeVars, refreshPromise, bootPc, show2FA,
                 tempToken, backVars>>

\* LoginForm.handle2FASubmit up to the await
handle2FASubmit ==
  /\ UNCHANGED viewVars
  /\ show2FA /\ ~formLoading
  /\ CanSend
  /\ formLoading' = TRUE
  /\ localStorage' = [localStorage EXCEPT !.access_token = tempToken]
  /\ req' = [req EXCEPT ![Lowest(Free)] =
               [NewReq("login2fa", getAccessToken(cookies, localStorage'), FALSE)
                  EXCEPT !.temp = tempToken]]
  /\ UNCHANGED <<cookies, storeVars, refreshPromise, bootPc, show2FA, tempToken, backVars>>

\* TwoFactorForm "Back" button
onBack ==
  /\ UNCHANGED viewVars
  /\ ~Mounting
  /\ show2FA /\ ~formLoading
  /\ show2FA' = FALSE
  /\ UNCHANGED <<cookies, localStorage, storeVars, refreshPromise, req, bootPc,
                 formLoading, tempToken, backVars>>

\* The user leaves the login form while its submission is pending: the form
\* unmounts, nothing aborts the request, and the form shows its defaults when it is
\* mounted again.
NavigateAway ==
  /\ UNCHANGED viewVars
  /\ \E r \in ReqIds :
       /\ req[r].kind \in {"login", "login2fa"} /\ req[r].st \in {"sent", "wait"}
       /\ ~req[r].left
       /\ req' = [req EXCEPT ![r].left = TRUE]
  /\ formLoading' = FALSE
  /\ show2FA' = FALSE
  /\ tempToken' = 0
  /\ UNCHANGED <<cookies, localStorage, storeVars, refreshPromise, bootPc, backVars>>

\* APIClient.logout up to the await: without a refresh token nothing is awaited and
\* clearTokens runs at once
logout ==
  /\ UNCHANGED viewVars
  /\ ~Mounting
  /\ IF getRefreshToken(cookies, localStorage) = 0
     THEN /\ cookies' = NoTokens
          /\ localStorage' = NoTokens
          /\ UNCHANGED req
     ELSE /\ CanSend
          /\ req' = [req EXCEPT ![Lowest(Free)] =
                       NewReq("logout", getAccessToken(cookies, localStorage), FALSE)]
          /\ UNCHANGED <<cookies, localStorage>>
  /\ UNCHANGED <<storeVars, refreshPromise, bootPc, formVars, backVars>>

\* ---------------------------------------------------------------- interceptors
\* (bug variant: the _retry flag is not consulted)
ShouldRefreshIgnoringRetry(status, retry) == status = 401

\* response interceptor, line 144: a 401 on a request not yet retried goes to refresh
ShouldRefresh(status, retry) == status = 401 /\ ~retry

\* (bug variant: the promise in progress is not consulted)
InFlightNever(p) == FALSE

\* refreshAccessToken, line 211: a refresh in progress is shared
InFlight(p) == p # 0

\* refreshAccessToken's then(): the new access token goes where the old one lives;
\* nothing else of the response is kept
\* (bug variant: the cookie is not rewritten)
refreshedCookiesStale(c, access_token) == c

refreshedCookies(c, access_token) ==
  IF c.access_token # 0 THEN [c EXCEPT !.access_token = access_token] ELSE c

refreshedLocal(c, l, access_token) ==
  IF c.access_token # 0 THEN l ELSE [l EXCEPT !.access_token = access_token]

\* requests awaiting one of the refresh promises in S (a promise awaiting itself
\* never settles and wakes nobody)
Waiters(S) ==
  {r \in ReqIds : req[r].st = "wait" /\ req[r].waitOn \in S /\ req[r].waitOn # r}

RECURSIVE Closure(_)
Closure(S) == LET T == S \cup Waiters(S) IN IF T = S THEN S ELSE Closure(T)

Has(S, k) == \E r \in S : req[r].kind = k

\* the submissions among S whose form is still mounted: the state setters of a
\* form that was left do nothing
OfForm(S) == {x \in S : req[x].kind \in {"login", "login2fa"} /\ ~req[x].left}

\* handle2FASubmit's catch: "restore original token or clear"
restore2FA(S, l) ==
  IF l.access_token # 0
       /\ \A x \in S : req[x].kind = "login2fa" => l.access_token # req[x].temp
  THEN l ELSE [l EXCEPT !.access_token = 0]

\* (bug variant: the catch leaves the tokens in place)
caughtTokensKept(S, t) == t

\* AuthInitializer's catch, "clear invalid tokens": both media are emptied when the
\* whoAmI call is among the rejected requests S
caughtTokens(S, t) == IF Has(S, "me") THEN NoTokens ELSE t

\* (bug variant: the login form's catch resets the auth store as well)
caughtUserLoginToo(S, u) ==
  IF Has(S, "me") \/ Has(S, "login") \/ Has(S, "login2fa") THEN NoUser ELSE u

\* the callers' catch blocks and the auth store: AuthInitializer calls setUser(null),
\* LoginForm.onSubmit and handle2FASubmit only show a toast
caughtUser(S, u) == IF Has(S, "me") THEN NoUser ELSE u

\* The interceptor rejects request r with error e.  A rejected refresh exchange
\* runs refreshAccessToken's catch (clearTokens) and finally, resolves null, and
\* every request awaiting it is rejected with its own 401.  Then each caller's
\* catch runs: AuthInitializer (setUser(null), clear both media, setLoading(false)),
\* LoginForm.onSubmit, LoginForm.handle2FASubmit, APIClient.logout (clearTokens).
Reject(rq, r, e) ==
  LET S     == IF rq[r].kind = "refresh" THEN Closure({r}) ELSE {r}
      clear == Has(S, "refresh") \/ Has(S, "logout")
      c1    == IF clear THEN NoTokens ELSE cookies
      l1    == IF clear THEN NoTokens ELSE localStorage
      me    == Has(S, "me")
  IN /\ cookies' = caughtTokens(S, c1)
     /\ localStorage' = caughtTokens(S, IF Has(S, "login2fa") THEN restore2FA(S, l1) ELSE l1)
     /\ user' = caughtUser(S, user)
     /\ isAuthenticated' = IF me THEN FALSE ELSE isAuthenticated
     /\ isLoading' = IF me THEN FALSE ELSE isLoading
     /\ bootPc' = IF me THEN "done" ELSE bootPc
     /\ formLoading' = IF OfForm(S) # {} THEN FALSE ELSE formLoading
     /\ refreshPromise' = IF Has(S, "refresh") THEN 0 ELSE refreshPromise
     /\ req' = [x \in ReqIds |->
                  IF x \in S
                  THEN [rq[x] EXCEPT !.st = "done", !.res = IF x = r THEN e ELSE "e401"]
                  ELSE rq[x]]
     /\ UNCHANGED <<show2FA, tempToken>>

\* ---------------------------------------------------------------- backend answers
\* 401: response interceptor and refreshAccessToken
Unauthorized(r) ==
  /\ UNCHANGED viewVars
  /\ req[r].st = "sent"
  /\ rejected' = IF req[r].kind \in {"api", "me"} /\ req[r].tok # 0
                 THEN rejected \cup {req[r].tok} ELSE rejected
  /\ UNCHANGED <<nextTok, provisional, exchanged>>
  /\ IF ShouldRefresh(401, req[r].retry)
     THEN LET rq1 == [req EXCEPT ![r].retry = TRUE]
              rt  == getRefreshToken(cookies, localStorage)
          IN IF InFlight(refreshPromise)
             THEN /\ req' = [rq1 EXCEPT ![r].st = "wait", ![r].waitOn = refreshPromise]
                  /\ UNCHANGED <<cookies, localStorage, storeVars, refreshPromise,
                                 bootPc, formVars>>
             ELSE IF rt = 0
             THEN Reject(rq1, r, "e401")
             ELSE /\ Free # {}
                  /\ LET q == Lowest(Free)
                     IN /\ req' = [rq1 EXCEPT
                               ![r].st = "wait", ![r].waitOn = q,
                               ![q] = [NewReq("refresh",
                                              getAccessToken(cookies, localStorage), FALSE)
                                       EXCEPT !.rt = rt,
                                              !.cause = IF req[r].kind \in {"api", "me"}
                                                        THEN req[r].tok ELSE 0,
                                              !.replay = (rt \in exchanged)]]
                        /\ refreshPromise' = q
                  /\ UNCHANGED <<cookies, localStorage, storeVars, bootPc, formVars>>
     ELSE Reject(req, r, "e401")

\* any other error status ("eOther") or no response at all ("eNet")
Failed(r, e) ==
  /\ UNCHANGED viewVars
  /\ req[r].st = "sent"
  /\ Reject(req, r, e)
  /\ UNCHANGED backVars

\* 200 on a privileged call
ApiOk(r) ==
  /\ UNCHANGED viewVars
  /\ req[r].st = "sent" /\ req[r].kind = "api"
  /\ req' = [req EXCEPT ![r].st = "done", ![r].res = "ok"]
  /\ UNCHANGED <<cookies, localStorage, storeVars, refreshPromise, bootPc, formVars, backVars>>

\* 200 on POST /auth/logout: the rest of APIClient.logout
LogoutOk(r) ==
  /\ UNCHANGED viewVars
  /\ req[r].st = "sent" /\ req[r].kind = "logout"
  /\ req' = [req EXCEPT ![r].st = "done", ![r].res = "ok"]
  /\ cookies' = NoTokens
  /\ localStorage' = NoTokens
  /\ UNCHANGED <<storeVars, refreshPromise, bootPc, formVars, backVars>>

\* 200 on GET /auth/me: AuthInitializer's setUser(user) and finally
MeOk(r, u) ==
  /\ UNCHANGED viewVars
  /\ req[r].st = "sent" /\ req[r].kind = "me"
  /\ req' = [req EXCEPT ![r].st = "done", ![r].res = "ok", ![r].uid = u.id]
  /\ user' = u
  /\ isAuthenticated' = TRUE
  /\ isLoading' = FALSE
  /\ bootPc' = "done"
  /\ UNCHANGED <<cookies, localStorage, refreshPromise, formVars, backVars>>

\* 200 on POST /auth/login: APIClient.login's setTokens, then the rest of onSubmit
LoginOk(r, u, twoFactor) ==
  /\ UNCHANGED viewVars
  /\ req[r].st = "sent" /\ req[r].kind = "login"
  /\ nextTok <= MaxTok
  /\ req' = [req EXCEPT ![r].st = "done", ![r].res = "ok", ![r].issued = nextTok,
                         ![r].uid = u.id]
  /\ cookies' = setTokensCookies(cookies, nextTok, nextTok, req[r].remember)
  /\ localStorage' = setTokensLocal(localStorage, nextTok, nextTok, req[r].remember)
  /\ nextTok' = nextTok + 1
  /\ formLoading' = IF req[r].left THEN formLoading ELSE FALSE
  /\ IF twoFactor
     THEN /\ show2FA' = IF req[r].left THEN show2FA ELSE TRUE
          /\ tempToken' = IF req[r].left THEN tempToken ELSE nextTok
          /\ provisional' = provisional \cup {nextTok}
          /\ UNCHANGED storeVars
     ELSE /\ user' = u
          /\ isAuthenticated' = TRUE
          /\ isLoading' = FALSE
          /\ UNCHANGED <<show2FA, tempToken, provisional>>
  /\ UNCHANGED <<refreshPromise, bootPc, rejected, exchanged>>

\* 200 on POST /auth/login/2fa: the rest of handle2FASubmit; the form is left
\* by router.push and starts from its defaults when mounted again
Login2FAOk(r, u) ==
  /\ UNCHANGED viewVars
  /\ req[r].st = "sent" /\ req[r].kind = "login2fa"
  /\ nextTok <= MaxTok
  /\ req' = [req EXCEPT ![r].st = "done", ![r].res = "ok", ![r].issued = nextTok,
                         ![r].uid = u.id]
  /\ localStorage' = [access_token |-> nextTok, refresh_token |-> nextTok]
  /\ nextTok' = nextTok + 1
  /\ user' = u
  /\ isAuthenticated' = TRUE
  /\ isLoading' = FALSE
  /\ formLoading' = IF req[r].left THEN formLoading ELSE FALSE
  /\ show2FA' = IF req[r].left THEN show2FA ELSE FALSE
  /\ tempToken' = IF req[r].left THEN tempToken ELSE 0
  /\ UNCHANGED <<cookies, refreshPromise, bootPc, provisional, rejected, exchanged>>

\* 200 on POST /auth/refresh: then(), finally(), and every request awaiting the
\* promise is sent again through the request interceptor
RefreshOk(q) ==
  /\ UNCHANGED viewVars
  /\ req[q].st = "sent" /\ req[q].kind = "refresh"
  /\ nextTok <= MaxTok
  /\ cookies' = refreshedCookies(cookies, nextTok)
  /\ localStorage' = refreshedLocal(cookies, localStorage, nextTok)
  /\ refreshPromise' = 0
  /\ req' = [x \in ReqIds |->
               IF x = q
               THEN [req[x] EXCEPT !.st = "done", !.res = "ok",
                                   !.got = nextTok, !.gotRt = nextTok]
               ELSE IF x \in Waiters({q})
               THEN [req[x] EXCEPT !.st = "sent", !.got = nextTok,
                                   !.sends = @ + 1,
                                   !.tok = getAccessToken(cookies', localStorage'),
                                   !.stale = (getAccessToken(cookies', localStorage')
                                                \in rejected)]
               ELSE req[x]]
  /\ nextTok' = nextTok + 1
  /\ exchanged' = exchanged \cup {req[q].rt}
  /\ UNCHANGED <<storeVars, bootPc, formVars, provisional, rejected>>

Next ==
  \/ BootstrapStart
  \/ SendApi
  \/ \E remember \in BOOLEAN : SubmitLogin(remember)
  \/ handle2FASubmit
  \/ onBack
  \/ logout
  \/ \E r \in ReqIds : LogoutOk(r)
  \/ \E r \in ReqIds : Unauthorized(r)
  \/ \E r \in ReqIds, e \in {"eOther", "eNet"} : Failed(r, e)
  \/ \E r \in ReqIds : ApiOk(r)
  \/ \E r \in ReqIds, u \in Identities : MeOk(r, u)
  \/ \E r \in ReqIds, u \in Identities, twoFactor \in BOOLEAN : LoginOk(r, u, twoFactor)
  \/ \E r \in ReqIds, u \in Identities : Login2FAOk(r, u)
  \/ \E q \in ReqIds : RefreshOk(q)

Spec == Init /\ [][Next]_vars

\* the same program with a user who also leaves the login form while it is loading
NavNext == Next \/ NavigateAway

NavSpec == Init /\ [][NavNext]_vars

\* a privileged call made while a refresh is in progress: a 401 on it joins that
\* refresh, so no request slot is kept back for an exchange of its own
SendApiDuringRefresh ==
  /\ UNCHANGED viewVars
  /\ ~Mounting
  /\ InFlight(refreshPromise)
  /\ Cardinality(Free) >= 1 + Cardinality(Unretried)
  /\ req' = [req EXCEPT ![Lowest(Free)] =
               NewReq("api", getAccessToken(cookies, localStorage), FALSE)]
  /\ UNCHANGED <<cookies, localStorage, storeVars, refreshPromise, bootPc, formVars, backVars>>

JoinNext == Next \/ SendApiDuringRefresh

JoinSpec == Init /\ [][JoinNext]_vars

\* The application is loaded again once the bootstrap has completed and nothing is
\* in flight: AuthInitializer mounts again and the login form shows its defaults.
BootstrapAgain ==
  /\ UNCHANGED viewVars
  /\ bootPc = "done"
  /\ \A r \in ReqIds : req[r].st \in {"free", "done"}
  /\ bootPc' = "again"
  /\ formLoading' = FALSE
  /\ show2FA' = FALSE
  /\ tempToken' = 0
  /\ UNCHANGED <<cookies, localStorage, storeVars, refreshPromise, req, backVars>>

RerunNext == Next \/ BootstrapAgain

RerunSpec == Init /\ [][RerunNext]_vars

\* ---------------------------------------------------------------- fairness
\* the backend (or the 30 s axios timeout) eventually answers every request in flight
Answer(r) ==
  \/ Unauthorized(r)
  \/ \E e \in {"eOther", "eNet"} : Failed(r, e)
  \/ ApiOk(r)
  \/ LogoutOk(r)
  \/ \E u \in Identities : MeOk(r, u)
  \/ \E u \in Identities, twoFactor \in BOOLEAN : LoginOk(r, u, twoFactor)
  \/ \E u \in Identities : Login2FAOk(r, u)
  \/ RefreshOk(r)

FairSpec ==
  /\ Init /\ [][Next]_vars
  /\ WF_vars(BootstrapStart)
  /\ \A r \in ReqIds : WF_vars(Answer(r))

\* ---------------------------------------------------------------- permission evaluator
\* The auth store on its own: its actions, called with any identity, and a component
\* that renders and evaluates the permission checks on the current identity.
RoleSet == { [name |-> "admin",  permissions |-> {"A"}],
             [name |-> "editor", permissions |-> {"B"}] }

AllUsers ==
  {NoUser} \cup [id : {1}, is_superuser : BOOLEAN, roles : SUBSET RoleSet]

NameLists == UNION {[1..n -> Perms] : n \in 0..MaxNames}

clientVars == <<cookies, localStorage, refreshPromise, req, bootPc, formVars, backVars>>

\* useAuthStore.setUser
setUser(u) ==
  /\ user' = u
  /\ isAuthenticated' = (u.id # 0)
  /\ UNCHANGED <<isLoading, viewVars, clientVars>>

\* useAuthStore.login
storeLogin(u) ==
  /\ u.id # 0
  /\ user' = u
  /\ isAuthenticated' = TRUE
  /\ isLoading' = FALSE
  /\ UNCHANGED <<viewVars, clientVars>>

\* useAuthStore.logout
storeLogout ==
  /\ user' = NoUser
  /\ isAuthenticated' = FALSE
  /\ isLoading' = FALSE
  /\ UNCHANGED <<viewVars, clientVars>>

\* useAuthStore.setLoading
setLoading(loading) ==
  /\ isLoading' = loading
  /\ UNCHANGED <<user, isAuthenticated, viewVars, clientVars>>

\* Partial<User>: any subset of the fields the permission checks read
Updates ==
  {[f \in {} |-> FALSE]}
    \cup {[is_superuser |-> b] : b \in BOOLEAN}
    \cup {[roles |-> r] : r \in SUBSET RoleSet}
    \cup {[is_superuser |-> b, roles |-> r] : b \in BOOLEAN, r \in SUBSET RoleSet}

\* { ...state.user, ...updates }
Spread(u, updates) ==
  [f \in DOMAIN u |-> IF f \in DOMAIN updates THEN updates[f] ELSE u[f]]

\* (bug variant: a missing user is created from the updates)
updateUserCreates(updates) ==
  /\ user' = Spread([user EXCEPT !.id = 1], updates)
  /\ UNCHANGED <<isAuthenticated, isLoading, viewVars, clientVars>>

\* useAuthStore.updateUser
updateUser(updates) ==
  /\ user' = IF user.id # 0 THEN Spread(user, updates) ELSE NoUser
  /\ UNCHANGED <<isAuthenticated, isLoading, viewVars, clientVars>>

\* a render that asks hasPermission for each name, hasAnyPermission(names), and the
\* gate's requireAll check on names
Evaluate(names) ==
  /\ gate' = [names |-> names,
              of    |-> user,
              each  |-> {p \in Perms : hasPermission(user, p)},
              any   |-> hasAnyPermission(user, names),
              all   |-> hasRequiredPermissions(user, names, TRUE)]
  /\ UNCHANGED <<storeVars, clientVars, route>>

PermInit ==
  /\ user \in AllUsers
  /\ isAuthenticated = (user.id # 0)
  /\ isLoading = FALSE
  /\ cookies = NoTokens /\ localStorage = NoTokens
  /\ refreshPromise = 0
  /\ req = [r \in ReqIds |-> FreeReq]
  /\ bootPc = "done"
  /\ formLoading = FALSE /\ show2FA = FALSE /\ tempToken = 0
  /\ nextTok = 1 /\ provisional = {} /\ rejected = {} /\ exchanged = {}
  /\ gate = NoGate
  /\ route = NoRoute

PermNext ==
  \/ \E u \in AllUsers : setUser(u)
  \/ \E u \in AllUsers : storeLogin(u)
  \/ storeLogout
  \/ \E updates \in Updates : updateUser(updates)
  \/ \E loading \in BOOLEAN : setLoading(loading)
  \/ \E names \in NameLists : Evaluate(names)

PermSpec == PermInit /\ [][PermNext]_vars

\* ---------------------------------------------------------------- route guard
\* The auth store and a page wrapped in ProtectedRoute, rendered with any props.
RoleNames == {role.name : role \in RoleSet}

RoleLists == UNION {[1..n -> RoleNames] : n \in 0..MaxRequired}

RequiredLists == UNION {[1..n -> Perms] : n \in 0..MaxRequired}

\* one render of ProtectedRoute and the effects that follow it
RenderRoute(requireAuth, requiredPermissions, requiredRoles, requireAll) ==
  /\ LET shown == ProtectedRoute(user, isAuthenticated, isLoading, requireAuth,
                                 requiredPermissions, requiredRoles, requireAll)
     IN route' = [requireAuth |-> requireAuth, requireAll |-> requireAll,
                  requiredPermissions |-> requiredPermissions,
                  requiredRoles |-> requiredRoles,
                  out |-> shown.out, redirect |-> shown.redirect]
  /\ UNCHANGED <<storeVars, clientVars, gate>>

RouteNext ==
  \/ \E u \in AllUsers : setUser(u)
  \/ \E u \in AllUsers : storeLogin(u)
  \/ storeLogout
  \/ \E updates \in Updates : updateUser(updates)
  \/ \E loading \in BOOLEAN : setLoading(loading)
  \/ \E requireAuth \in BOOLEAN, requireAll \in BOOLEAN,
        requiredPermissions \in RequiredLists, requiredRoles \in RoleLists :
          RenderRoute(requireAuth, requiredPermissions, requiredRoles, requireAll)

RouteSpec == PermInit /\ [][RouteNext]_vars

\* ---------------------------------------------------------------- properties
Exchanges == {q \in ReqIds : req[q].kind = "refresh"}

\* a refresh exchange is in flight until its promise settles
ExchangesInFlight == {q \in Exchanges : req[q].st \in {"sent", "wait"}}

StoreEmpty == cookies = NoTokens /\ localStorage = NoTokens

\* C1: at most one refresh exchange is in flight; every request suspended in
\* refreshAccessToken() awaits that one exchange, and a request that has been woken
\* holds the result of the exchange it awaited (the new token, or failure).
SingleFlight ==
  /\ Cardinality(ExchangesInFlight) <= 1
  /\ \A r \in ReqIds : req[r].st = "wait" =>
        /\ refreshPromise # 0
        /\ req[r].waitOn = refreshPromise
        /\ refreshPromise \in ExchangesInFlight
  /\ \A r \in ReqIds : (req[r].waitOn # 0 /\ req[r].st # "wait") =>
        LET q == req[r].waitOn
        IN /\ req[q].st = "done"
           /\ req[q].res = "ok" => req[r].got = req[q].got
           /\ req[q].res # "ok" => req[r].got = 0 /\ req[r].st = "done" /\ req[r].res = "e401"

\* C1 witness: two callers share one exchange in flight
SingleFlightWitness ==
  \E r1, r2 \in ReqIds :
    /\ r1 # r2
    /\ req[r1].st = "wait" /\ req[r2].st = "wait"
    /\ req[r1].waitOn = req[r2].waitOn
    /\ req[req[r1].waitOn].st = "sent"
    /\ req[r1].kind # "refresh" /\ req[r2].kind # "refresh"

\* C2: for every access token, the 401s answered to the privileged calls that
\* carried it lead to one refresh exchange in total.
OneExchangePerExpiredToken ==
  \A t \in 1..MaxTok : Cardinality({q \in Exchanges : req[q].cause = t}) <= 1

RefreshSucceeds(q) ==
  /\ req[q].kind = "refresh" /\ req[q].st = "sent"
  /\ req'[q].st = "done" /\ req'[q].res = "ok"

RetryOnce ==
  \A r \in ReqIds :
    /\ req[r].sends <= 2
    /\ req[r].st = "wait" => req[r].retry /\ req[r].sends = 1
    /\ req[r].sends = 2 =>
         /\ req[r].retry
         /\ req[r].got # 0
         /\ req[r].tok = req[r].got

\* C4 witness: a privileged call re-sent with the refreshed token
RetryOnceWitness ==
  \E r \in ReqIds :
    /\ req[r].kind = "api" /\ req[r].sends = 2 /\ req[r].st = "sent"
    /\ req[r].tok = req[r].got /\ req[r].tok # 0

\* C5: when the retry of a request is answered 401 as well, the session ends:
\* the auth store is Unauthenticated and the Credential Store is empty when the
\* caller receives the error.
SecondFailureLogsOut ==
  [][\A r \in ReqIds :
        (req[r].st = "sent" /\ req[r].sends = 2
           /\ req'[r].st = "done" /\ req'[r].res = "e401")
        => (~isAuthenticated' /\ user' = NoUser /\ StoreEmpty')]_vars

RefreshFails(q) ==
  /\ req[q].kind = "refresh" /\ req[q].st = "sent"
  /\ req'[q].st = "done" /\ req'[q].res # "ok"

\* C6: when a refresh exchange fails, the auth store is Unauthenticated and the
\* Credential Store is empty by the time the error reaches the callers, and no
\* further exchange is issued.
RefreshFailureLogsOut ==
  [][\A q \in ReqIds : RefreshFails(q) =>
        /\ ~isAuthenticated' /\ user' = NoUser
        /\ StoreEmpty'
        /\ Exchanges' = Exchanges]_vars

\* C7: an Authenticated store implies a stored access token that the backend has
\* not rejected, or a refresh in progress.
AuthenticatedHasCredential ==
  isAuthenticated =>
    LET a == getAccessToken(cookies, localStorage)
    IN a # 0 /\ (a \notin rejected \/ refreshPromise # 0)

\* the login journey is between the accepted password and the verified code
AwaitingSecondFactor == show2FA

ProvisionalOnlyFor2FA ==
  \A r \in ReqIds :
    (req[r].st # "free" /\ req[r].tok \in provisional) => req[r].kind = "login2fa"

\* C10: a bootstrap that has started its whoAmI call eventually completes and
\* takes the loading flag down.
BootstrapTerminates == (bootPc = "waiting") ~> (bootPc = "done" /\ ~isLoading)

\* C11: a logout that has been invoked leads to an empty Credential Store, whatever
\* the backend answers to POST /auth/logout.
LogoutPending == \E r \in ReqIds : req[r].kind = "logout" /\ req[r].st \in {"sent", "wait"}

LogoutClearsStore == LogoutPending ~> StoreEmpty

IsSent(r) == req[r].st # "sent" /\ req'[r].st = "sent"

Settles(r) == req[r].st \in {"sent", "wait"} /\ req'[r].st = "done"

\* C13: when the bootstrap's whoAmI call succeeds (directly or re-sent after a
\* refresh) the auth store is Authenticated with the returned identity; when it
\* fails, the auth store is Unauthenticated and both media are empty.
BootstrapOutcome ==
  [][\A r \in ReqIds : (req[r].kind = "me" /\ Settles(r)) =>
        /\ bootPc' = "done"
        /\ IF req'[r].res = "ok"
           THEN isAuthenticated' /\ user' \in Identities /\ user'.id = req'[r].uid
           ELSE ~isAuthenticated' /\ user' = NoUser /\ StoreEmpty']_vars

\* C13 witness: the whoAmI call failed without any refresh having cleared the store
BootstrapOutcomeWitness ==
  \E r \in ReqIds :
    /\ req[r].kind = "me" /\ req[r].st = "done" /\ req[r].res \in {"eOther", "eNet"}
    /\ Exchanges = {}
    /\ StoreEmpty /\ ~isAuthenticated /\ user = NoUser /\ bootPc = "done"

PermsOf(u) == UNION {role.permissions : role \in u.roles}

Evaluated == gate # NoGate

\* C14: hasPermission(name) is true exactly when there is an identity and it is a
\* superuser or one of its roles carries the name; so a superuser gets every name
\* even with no role, and no identity gets none.
PermissionSemantics ==
  Evaluated =>
    /\ \A p \in Perms :
         p \in gate.each <=>
           (gate.of.id # 0 /\ (gate.of.is_superuser \/ p \in PermsOf(gate.of)))
    /\ (gate.of.id # 0 /\ gate.of.is_superuser) => gate.each = Perms
    /\ gate.of.id = 0 => gate.each = {}

\* C14 witness: a superuser without roles was granted every permission
PermissionSemanticsWitness ==
  /\ Evaluated
  /\ gate.of.id # 0 /\ gate.of.is_superuser /\ gate.of.roles = {}
  /\ gate.each = Perms

Matches == {i \in 1..Len(gate.names) : gate.names[i] \in gate.each}

\* C15 as claimed: hasAny is "some name is held", hasAll is "every name is held",
\* for every identity and every list, the empty list included.
AnyAllSemantics ==
  Evaluated =>
    /\ gate.any <=> (Matches # {})
    /\ gate.all <=> (Matches = 1..Len(gate.names))

\* C15 as amended: the same, except that hasAny of the empty list is true for a
\* superuser.
AnyAllSemanticsButEmpty ==
  Evaluated =>
    /\ Len(gate.names) > 0 => (gate.any <=> (Matches # {}))
    /\ Len(gate.names) = 0 => (gate.any <=> (gate.of.id # 0 /\ gate.of.is_superuser))
    /\ gate.all <=> (Matches = 1..Len(gate.names))

\* C15 witness: roles holding {A, B}: hasAny([A, C]) is true, hasAll([A, C]) false
AnyAllWitness ==
  /\ gate.names = <<"A", "C">>
  /\ ~gate.of.is_superuser /\ PermsOf(gate.of) = {"A", "B"}
  /\ gate.any /\ ~gate.all

\* C16: at most one of the two media holds credential tokens.
MediumExclusive == cookies = NoTokens \/ localStorage = NoTokens

PairOf(t) == [access_token |-> t, refresh_token |-> t]

LoginSucceeds(r) == req[r].kind = "login" /\ Settles(r) /\ req'[r].res = "ok"

VerifyFails(r) == req[r].kind = "login2fa" /\ Settles(r) /\ req'[r].res # "ok"

VerifySucceeds(r) == req[r].kind = "login2fa" /\ Settles(r) /\ req'[r].res = "ok"

AnswersBootstrap == \E m \in ReqIds : req[m].kind = "me" /\ Settles(m)

Resent == {r \in ReqIds : req[r].st = "wait" /\ req'[r].st = "sent"}

\* C20: the step in which a call gets no response hands the error to the caller,
\* leaves both media and the auth store as they were, and sends nothing again.
TransportFailureInert ==
  [][\A r \in ReqIds : (Settles(r) /\ req'[r].res = "eNet") =>
        /\ cookies' = cookies /\ localStorage' = localStorage
        /\ user' = user /\ isAuthenticated' = isAuthenticated
        /\ Resent = {}]_vars

\* C21: the answer to a submission whose form was left in the meantime changes
\* neither the Credential Store nor the auth store.
CancellationCommitsNothing ==
  [][\A r \in ReqIds :
       (req[r].kind \in {"login", "login2fa"} /\ req[r].left /\ Settles(r)) =>
          /\ cookies' = cookies /\ localStorage' = localStorage
          /\ user' = user /\ isAuthenticated' = isAuthenticated]_vars

NoLoginYet == \A r \in ReqIds : req[r].kind \notin {"login", "login2fa"}

\* C22: a bootstrap run that follows an earlier one, with no login in between,
\* issues no whoAmI call and leaves the auth store as the earlier run left it.
BootstrapIdempotent ==
  [][(bootPc = "again" /\ bootPc' # "again" /\ NoLoginYet) =>
        /\ req' = req
        /\ user' = user /\ isAuthenticated' = isAuthenticated]_vars

\* C23: a refresh exchange in flight eventually settles, whatever the backend
\* answers: the marker refreshPromise is reset and no request is left waiting.
RefreshSettles ==
  (ExchangesInFlight # {}) ~>
     (ExchangesInFlight = {} /\ refreshPromise = 0 /\ Waiters(Exchanges) = {})

\* C24: once a login without second factor, or a second-factor verification, has
\* succeeded, the access token the request interceptor would attach is the one
\* that success issued.
AttachesIssuedToken ==
  [][\A r \in ReqIds :
       (\/ LoginSucceeds(r) /\ req'[r].issued \notin provisional'
        \/ VerifySucceeds(r)) =>
          getAccessToken(cookies', localStorage') = req'[r].issued]_vars

NewerLogin ==
  \E r \in ReqIds : /\ req[r].kind \in {"login", "login2fa"}
                    /\ req[r].st = "done" /\ req[r].res = "ok"
                    /\ req[r].issued \notin provisional

\* C25: when a login or a second-factor verification has succeeded while the
\* bootstrap's whoAmI call was in flight, the step that completes the bootstrap
\* neither takes the auth store out of Authenticated nor empties the Credential
\* Store.
BootstrapKeepsNewerLogin ==
  [][\A m \in ReqIds : (req[m].kind = "me" /\ Settles(m) /\ NewerLogin) =>
        /\ isAuthenticated => isAuthenticated'
        /\ ~StoreEmpty => ~StoreEmpty']_vars

\* the route has just been rendered (store actions leave it as it is)
Rendered == route' # route

HeldBy(u, p) == u.id # 0 /\ (u.is_superuser \/ p \in PermsOf(u))

InRole(u, n) == u.id # 0 /\ n \in {role.name : role \in u.roles}

Quantified(all, S) == IF all THEN \A b \in S : b ELSE \E b \in S : b

\* the identity meets the requirements of the route just rendered
Satisfies(u, rt) ==
  /\ Len(rt.requiredPermissions) > 0 =>
       Quantified(rt.requireAll,
                  {HeldBy(u, rt.requiredPermissions[i]) : i \in 1..Len(rt.requiredPermissions)})
  /\ Len(rt.requiredRoles) > 0 =>
       Quantified(rt.requireAll,
                  {InRole(u, rt.requiredRoles[i]) : i \in 1..Len(rt.requiredRoles)})

\* C26: a route with a non-empty requiredPermissions or requiredRoles shows its
\* children only to an identity that meets both requirements, whatever requireAuth,
\* requireAll and the session state are.
RouteChecksRequirements ==
  [][(/\ Rendered
      /\ Len(route'.requiredPermissions) > 0 \/ Len(route'.requiredRoles) > 0
      /\ route'.out = "children") => Satisfies(user, route')]_vars

\* C28: isAuthenticated is true exactly when user is non-null, initially and after
\* every store action; a store action that finds user null and leaves
\* isAuthenticated as it is (updateUser, setLoading) leaves user null.
StoreInvariant ==
  /\ isAuthenticated <=> (user # NoUser)
  /\ [][/\ isAuthenticated' <=> (user' # NoUser)
        /\ (user = NoUser /\ isAuthenticated' = isAuthenticated) =>
              (user' = NoUser /\ ~isAuthenticated')]_vars

\* C28 witness: setLoading(true) has acted on a store holding an identity
StoreInvariantWitness ==
  /\ isLoading /\ isAuthenticated
  /\ user.id # 0 /\ user.is_superuser /\ user.roles = RoleSet

\* C30: a render shows no children while isLoading, and none when requireAuth is
\* set and the store is not Authenticated; in that case, when not loading, it
\* pushes the fallback URL.
RouteWaitsAndRedirects ==
  [][Rendered =>
       /\ isLoading => route'.out = "spinner"
       /\ (route'.requireAuth /\ ~isAuthenticated) => route'.out \in {"spinner", "null"}
       /\ (route'.requireAuth /\ ~isAuthenticated /\ ~isLoading) =>
             (route'.out = "null" /\ route'.redirect = "/login")]_vars

\* C30 witness: a route that requires authentication rendered nothing and pushed
\* the fallback URL, on a store that is neither loading nor Authenticated
RouteRedirectWitness ==
  /\ ~isLoading /\ ~isAuthenticated
  /\ route.requireAuth /\ route.out = "null" /\ route.redirect = "/login"

\* request r is answered 401 in this step: it is rejected with that 401 or
\* suspended on a refresh
Gets401(r) ==
  /\ req[r].st = "sent"
  /\ req'[r].st = "wait" \/ (req'[r].st = "done" /\ req'[r].res = "e401")

\* C27: the step in which a login attempt is answered 401 rejects it, starts no
\* refresh exchange and leaves both media as they were.
RejectedLoginIsInert ==
  [][\A r \in ReqIds : (req[r].kind = "login" /\ Gets401(r)) =>
        /\ req'[r].st = "done"
        /\ Exchanges' = Exchanges
        /\ cookies' = cookies /\ localStorage' = localStorage]_vars

\* C29: when a privileged call is answered 401 and no refresh token is stored, no
\* exchange is issued, the call is rejected with its 401 without being sent again,
\* and the stored tokens and the auth store stay as they were.
NoRefreshTokenRejects ==
  [][\A r \in ReqIds :
       (req[r].kind = "api" /\ Gets401(r) /\ getRefreshToken(cookies, localStorage) = 0) =>
          /\ req'[r].st = "done" /\ req'[r].res = "e401" /\ req'[r].sends = req[r].sends
          /\ Exchanges' = Exchanges
          /\ cookies' = cookies /\ localStorage' = localStorage
          /\ user' = user /\ isAuthenticated' = isAuthenticated]_vars

====
